---------------------------- MODULE Spec2Model ----------------------------
(***************************************************************************)
(* The device abstraction of Spectrometer-Control-App.py: the shared       *)
(* spectrometer object (PhysicalSpectrometer or DemoSpectrometer), its two  *)
(* locks, and the callbacks that use it from concurrent request threads.   *)
(***************************************************************************)
EXTENDS Integers, Sequences, FiniteSets, TLC

(* ------------------------------ bounds -------------------------------- *)

\* number of request-handling threads running callbacks concurrently
NumThreads == 2
\* submitted control values are -1 and 1 .. MaxValue
MaxValue == 1
\* distinct spectra the driver can deliver
NumFrames == 2
\* integration-time limits reported by the attached hardware
DriverMinLimit == 1
DriverMaxLimit == DriverMinLimit + 1
\* number of pixels of a spectrum delivered by the driver
DriverPixels == 3

(* ---------------------------- program constants ------------------------ *)

\* numpy.linspace(400, 900, 5000)
DemoSamples == 5000
\* DashOceanOpticsSpectrometer.__init__ defaults
DefaultIntTimeMax == 1
DefaultIntTimeMin == 0

Threads == 1..NumThreads
Values == {0 - 1} \cup (1..MaxValue)
Frames == 1..NumFrames

KnownId == "integration-time-input"
UnknownId == "unknown-control"
ControlIds == {KnownId, UnknownId}
DemoModel == "USB2000+"
DriverModel == "HR4000"
\* model(), int_time_max(), int_time_min(): one body, three returned fields
Accessors == {"model", "int_time_max", "int_time_min"}

\* error descriptions stored under failed (str(e))
KeyErr == "KeyError"
AttrErr == "AttributeError"
DriverErr == "SeaBreezeError"

\* str(x) of an integer
PyStr(v) == ToString(v)

\* the spectrum value: lengths of the two sequences and what they hold
EmptySpectrum == [wl |-> 0, in |-> 0, tag |-> <<>>]
DriverSpectrum(f) == [wl |-> DriverPixels, in |-> DriverPixels, tag |-> <<f>>]

\* a batch of commands: a dict iterated in insertion order, ids distinct
Entry(i, v) == [id |-> i, val |-> v]
Batches ==
    {<<>>, <<Entry(UnknownId, 1)>>}
    \cup {<<Entry(KnownId, v)>> : v \in Values}
    \cup {<<Entry(KnownId, v), Entry(UnknownId, 1)>> : v \in Values}
    \cup {<<Entry(UnknownId, 1), Entry(KnownId, v)>> : v \in Values}
\* what update_spec_params builds: one entry per control, and the panel has
\* the integration-time control alone
PanelBatches == {<<Entry(KnownId, v)>> : v \in Values}
BatchIds(b) == {b[k].id : k \in 1..Len(b)}

EmptyMap == [i \in {} |-> ""]
Put(m, k, v) == [i \in DOMAIN m \cup {k} |-> IF i = k THEN v ELSE m[i]]

VARIABLES
    variant,            \* "Physical" or "Demo": which class spec is
    _spec,              \* TRUE when self._spec is a Spectrometer, FALSE when None
    _specmodel,
    _int_time_min,
    _int_time_max,
    _spectralData,
    _sample_data_scale,
    comm_lock,          \* threading.Lock: TRUE when locked
    spec_lock,
    lastGood,           \* history: the spectrum of the last read the driver completed
    pc, op, exc, commands, idx, failed, succeeded, tmp, ret

vars == <<variant, _spec, _specmodel, _int_time_min, _int_time_max,
          _spectralData, _sample_data_scale, comm_lock, spec_lock, lastGood,
          pc, op, exc, commands, idx, failed, succeeded, tmp, ret>>

shared == <<variant, _spec, _specmodel, _int_time_min, _int_time_max,
            _spectralData, _sample_data_scale, comm_lock, spec_lock, lastGood>>
fields == <<_spec, _specmodel, _int_time_min, _int_time_max>>
locals == <<op, exc, commands, idx, failed, succeeded, tmp, ret>>

Goto(t, l) == pc' = [pc EXCEPT ![t] = l]

\* DashOceanOpticsSpectrometer.__init__: _spec, _specmodel, the two limits
BaseFields == <<FALSE, "", DefaultIntTimeMin, DefaultIntTimeMax>>

\* what the body of the try block leaves in the fields: the driver raises at
\* list_devices()/devices[0]/Spectrometer(...), at .model, at either limit, or
\* nowhere; every assignment before the raise has taken effect
\*   devices = list_devices()
\*   self._spec = Spectrometer(devices[0])
\*   self._specmodel = self._spec.model
\*   self._int_time_min = self._spec.integration_time_micros_limits[0]
\*   self._int_time_max = self._spec.integration_time_micros_limits[1]
AssignResults(f) ==
    { [raised |-> TRUE,  f |-> f],
      [raised |-> TRUE,  f |-> <<TRUE, f[2], f[3], f[4]>>],
      [raised |-> TRUE,  f |-> <<TRUE, DriverModel, f[3], f[4]>>],
      [raised |-> TRUE,  f |-> <<TRUE, DriverModel, DriverMinLimit, f[4]>>],
      [raised |-> FALSE, f |-> <<TRUE, DriverModel, DriverMinLimit, DriverMaxLimit>>] }

(* ------------------------------- Init ---------------------------------- *)

InitLocals ==
    /\ pc = [t \in Threads |-> "idle"]
    /\ op = [t \in Threads |-> "none"]
    /\ exc = [t \in Threads |-> FALSE]
    /\ commands = [t \in Threads |-> <<>>]
    /\ idx = [t \in Threads |-> 1]
    /\ failed = [t \in Threads |-> EmptyMap]
    /\ succeeded = [t \in Threads |-> EmptyMap]
    /\ tmp = [t \in Threads |-> <<>>]
    /\ ret = [t \in Threads |-> EmptySpectrum]

InitPhysical ==
    /\ variant = "Physical"
    /\ \E r \in AssignResults(BaseFields) :
        /\ _spec = r.f[1]
        /\ _specmodel = r.f[2]
        /\ _int_time_min = r.f[3]
        /\ _int_time_max = r.f[4]
    /\ _spectralData = EmptySpectrum
    /\ _sample_data_scale = 0
    /\ comm_lock = FALSE
    /\ spec_lock = FALSE
    /\ lastGood = EmptySpectrum
    /\ InitLocals

InitDemo ==
    /\ variant = "Demo"
    /\ _spec = FALSE
    /\ _specmodel = DemoModel
    /\ _int_time_min = DefaultIntTimeMin
    /\ _int_time_max = DefaultIntTimeMax
    /\ _spectralData = EmptySpectrum
    /\ _sample_data_scale = DefaultIntTimeMin
    /\ comm_lock = FALSE
    /\ spec_lock = FALSE
    /\ lastGood = EmptySpectrum
    /\ InitLocals

Init == InitPhysical \/ InitDemo

(* --------------------------- the two locks ----------------------------- *)

\* a lock that lets every caller in
CanAcquireAnyway(lock) == TRUE

\* Lock.acquire(): blocks while the lock is locked
CanAcquire(lock) == ~lock

(* --------------------- callbacks entering the device ------------------- *)

Begin(t, o, l) ==
    /\ pc[t] = "idle"
    /\ op' = [op EXCEPT ![t] = o]
    /\ Goto(t, l)

\* update_plot -> spec.get_spectrum()
StartGetSpectrum(t) ==
    /\ Begin(t, "get_spectrum", IF variant = "Physical" THEN "gs_check" ELSE "dg_wl")
    /\ UNCHANGED <<shared, exc, commands, idx, failed, succeeded, tmp, ret>>

\* for ctrl_id in commands: the body for entry i if there is one, else
\* return(failed, succeeded)
ForLoop(b, i, body) == IF i <= Len(b) THEN body ELSE "done"

\* update_spec_params -> spec.send_control_values(commands)
StartSendOf(t, batches) ==
    /\ \E b \in batches :
        /\ Begin(t, "send_control_values",
                 ForLoop(b, 1, IF variant = "Physical" THEN "sc_acq" ELSE "ds_call"))
        /\ commands' = [commands EXCEPT ![t] = b]
    /\ idx' = [idx EXCEPT ![t] = 1]
    /\ failed' = [failed EXCEPT ![t] = EmptyMap]
    /\ succeeded' = [succeeded EXCEPT ![t] = EmptyMap]
    /\ UNCHANGED <<shared, exc, tmp, ret>>

\* update_spec_model -> spec.model(); the controls -> spec.int_time_max/min()
StartAccessor(t) ==
    /\ \E a \in Accessors :
        Begin(t, "accessor", IF variant = "Physical" THEN "ac_sacq" ELSE "da_ret")
    /\ UNCHANGED <<shared, exc, commands, idx, failed, succeeded, tmp, ret>>

\* spec.assign_spec()
StartAssign(t) ==
    /\ Begin(t, "assign_spec", IF variant = "Physical" THEN "as_acq" ELSE "da_assign")
    /\ UNCHANGED <<shared, exc, commands, idx, failed, succeeded, tmp, ret>>

\* the callback has used the result and its thread is free again
Finish(t) ==
    /\ pc[t] = "done"
    /\ Goto(t, "idle")
    /\ op' = [op EXCEPT ![t] = "none"]
    /\ exc' = [exc EXCEPT ![t] = FALSE]
    /\ commands' = [commands EXCEPT ![t] = <<>>]
    /\ idx' = [idx EXCEPT ![t] = 1]
    /\ failed' = [failed EXCEPT ![t] = EmptyMap]
    /\ succeeded' = [succeeded EXCEPT ![t] = EmptyMap]
    /\ tmp' = [tmp EXCEPT ![t] = <<>>]
    /\ ret' = [ret EXCEPT ![t] = EmptySpectrum]
    /\ UNCHANGED shared

(* ------------------ PhysicalSpectrometer.assign_spec ------------------- *)

\* assign_spec entering its try block without taking comm_lock
AssignAcquireSkipped(t) ==
    /\ pc[t] = "as_acq"
    /\ exc' = [exc EXCEPT ![t] = FALSE]
    /\ Goto(t, "as_body")
    /\ UNCHANGED <<shared, op, commands, idx, failed, succeeded, tmp, ret>>

\* try: self.comm_lock.acquire()
AssignAcquire(t) ==
    /\ pc[t] = "as_acq"
    /\ CanAcquire(comm_lock)
    /\ comm_lock' = TRUE
    /\ exc' = [exc EXCEPT ![t] = FALSE]
    /\ Goto(t, "as_body")
    /\ UNCHANGED <<variant, fields, _spectralData, _sample_data_scale, spec_lock,
                   lastGood, op, commands, idx, failed, succeeded, tmp, ret>>

\* the try block under comm_lock; except Exception: pass
AssignBody(t) ==
    /\ pc[t] = "as_body"
    /\ \E r \in AssignResults(fields) :
        /\ _spec' = r.f[1]
        /\ _specmodel' = r.f[2]
        /\ _int_time_min' = r.f[3]
        /\ _int_time_max' = r.f[4]
        /\ exc' = [exc EXCEPT ![t] = r.raised]
    /\ Goto(t, "as_rel")
    /\ UNCHANGED <<variant, _spectralData, _sample_data_scale, comm_lock, spec_lock,
                   lastGood, op, commands, idx, failed, succeeded, tmp, ret>>

\* where assign_spec returns to
AfterAssign(o) ==
    IF o = "get_spectrum" THEN "gs_srel"
    ELSE IF o = "accessor" THEN "ac_srel"
    ELSE "done"

\* the release at the end of the try block instead of in finally: skipped
\* when the block raised
AssignReleaseUnlessRaised(t) ==
    /\ pc[t] = "as_rel"
    /\ comm_lock' = (comm_lock /\ exc[t])
    /\ exc' = [exc EXCEPT ![t] = FALSE]
    /\ Goto(t, AfterAssign(op[t]))
    /\ UNCHANGED <<variant, fields, _spectralData, _sample_data_scale, spec_lock,
                   lastGood, op, commands, idx, failed, succeeded, tmp, ret>>

\* finally: self.comm_lock.release(); print(...)
AssignRelease(t) ==
    /\ pc[t] = "as_rel"
    /\ comm_lock' = FALSE
    /\ exc' = [exc EXCEPT ![t] = FALSE]
    /\ Goto(t, AfterAssign(op[t]))
    /\ UNCHANGED <<variant, fields, _spectralData, _sample_data_scale, spec_lock,
                   lastGood, op, commands, idx, failed, succeeded, tmp, ret>>

(* ------------------ PhysicalSpectrometer.get_spectrum ------------------ *)

\* if self._spec is None:
GetCheck(t) ==
    /\ pc[t] = "gs_check"
    /\ Goto(t, IF _spec THEN "gs_cacq" ELSE "gs_sacq")
    /\ UNCHANGED <<shared, locals>>

\* try: self.spec_lock.acquire(); self.assign_spec()
GetAcquireSpec(t) ==
    /\ pc[t] = "gs_sacq"
    /\ CanAcquire(spec_lock)
    /\ spec_lock' = TRUE
    /\ Goto(t, "as_acq")
    /\ UNCHANGED <<variant, fields, _spectralData, _sample_data_scale, comm_lock,
                   lastGood, locals>>

\* finally: self.spec_lock.release()
GetReleaseSpec(t) ==
    /\ pc[t] = "gs_srel"
    /\ spec_lock' = FALSE
    /\ Goto(t, "gs_cacq")
    /\ UNCHANGED <<variant, fields, _spectralData, _sample_data_scale, comm_lock,
                   lastGood, locals>>

\* try: self.comm_lock.acquire()
GetAcquireComm(t) ==
    /\ pc[t] = "gs_cacq"
    /\ CanAcquire(comm_lock)
    /\ comm_lock' = TRUE
    /\ exc' = [exc EXCEPT ![t] = FALSE]
    /\ Goto(t, "gs_read")
    /\ UNCHANGED <<variant, fields, _spectralData, _sample_data_scale, spec_lock,
                   lastGood, op, commands, idx, failed, succeeded, tmp, ret>>

\* a handler that resets the stored spectrum
ClearOnFailure(data) == EmptySpectrum

\* what a read that raised leaves in self._spectralData
KeepOnFailure(data) == data

\* self._spectralData = self._spec.spectrum(correct_dark_counts=False,
\*                                          correct_nonlinearity=True)
\* except Exception: pass
\* frames: the spectra the driver can deliver
GetReadOf(t, frames) ==
    /\ pc[t] = "gs_read"
    /\ \/ /\ exc' = [exc EXCEPT ![t] = TRUE]        \* None has no spectrum, or the driver raises
          /\ _spectralData' = KeepOnFailure(_spectralData)
          /\ UNCHANGED lastGood
       \/ /\ _spec
          /\ \E f \in frames :
              /\ _spectralData' = DriverSpectrum(f)
              /\ lastGood' = DriverSpectrum(f)
          /\ UNCHANGED exc
    /\ Goto(t, "gs_crel")
    /\ UNCHANGED <<variant, fields, _sample_data_scale, comm_lock, spec_lock,
                   op, commands, idx, failed, succeeded, tmp, ret>>

GetRead(t) == GetReadOf(t, Frames)

\* finally: self.comm_lock.release()
GetReleaseComm(t) ==
    /\ pc[t] = "gs_crel"
    /\ comm_lock' = FALSE
    /\ Goto(t, "gs_ret")
    /\ UNCHANGED <<variant, fields, _spectralData, _sample_data_scale, spec_lock,
                   lastGood, locals>>

\* return self._spectralData
GetReturn(t) ==
    /\ pc[t] = "gs_ret"
    /\ ret' = [ret EXCEPT ![t] = _spectralData]
    /\ exc' = [exc EXCEPT ![t] = FALSE]
    /\ Goto(t, "done")
    /\ UNCHANGED <<shared, op, commands, idx, failed, succeeded, tmp>>

(* --------------- PhysicalSpectrometer.send_control_values -------------- *)

\* self._controlFunctions: the ids that have a setter
ControlFunctions == {KnownId}

\* the driver's integration_time_micros(v): it refuses a value outside the
\* hardware's limits, and any call can fail on the transport
DriverAccepts(v) == DriverMinLimit <= v /\ v <= DriverMaxLimit

\* a try block around the whole loop: the first failure ends the batch
AfterEntryAbort(raised, loop) == IF raised THEN "done" ELSE loop

\* where control goes after one entry: on to the loop, raised or not
AfterEntry(raised, loop) == loop

\* the two result dicts swapped
RecordSuccessSwapped(t, e) ==
    /\ failed' = [failed EXCEPT ![t] = Put(failed[t], e.id, PyStr(e.val))]
    /\ UNCHANGED succeeded

\* succeeded[ctrl_id] = str(commands[ctrl_id])
RecordSuccess(t, e) ==
    /\ succeeded' = [succeeded EXCEPT ![t] = Put(succeeded[t], e.id, PyStr(e.val))]
    /\ UNCHANGED failed

\* except Exception as e: failed[ctrl_id] = str(e)
RecordFailure(t, e, msg) ==
    /\ failed' = [failed EXCEPT ![t] = Put(failed[t], e.id, msg)]
    /\ UNCHANGED succeeded

\* try: self.comm_lock.acquire()
SendAcquire(t) ==
    /\ pc[t] = "sc_acq"
    /\ CanAcquire(comm_lock)
    /\ comm_lock' = TRUE
    /\ Goto(t, "sc_call")
    /\ UNCHANGED <<variant, fields, _spectralData, _sample_data_scale, spec_lock,
                   lastGood, locals>>

\* eval(self._controlFunctions[ctrl_id])(commands[ctrl_id])
SendCall(t) ==
    /\ pc[t] = "sc_call"
    /\ LET e == commands[t][idx[t]] IN
        \/ e.id \notin ControlFunctions /\ RecordFailure(t, e, KeyErr)
        \/ e.id \in ControlFunctions /\ ~_spec /\ RecordFailure(t, e, AttrErr)
        \/ e.id \in ControlFunctions /\ _spec /\ RecordFailure(t, e, DriverErr)
        \/ e.id \in ControlFunctions /\ _spec /\ DriverAccepts(e.val)
              /\ RecordSuccess(t, e)
    /\ Goto(t, "sc_rel")
    /\ UNCHANGED <<shared, op, exc, commands, idx, tmp, ret>>

\* finally: self.comm_lock.release()
SendRelease(t) ==
    /\ pc[t] = "sc_rel"
    /\ comm_lock' = FALSE
    /\ idx' = [idx EXCEPT ![t] = @ + 1]
    /\ Goto(t, AfterEntry(commands[t][idx[t]].id \in DOMAIN failed[t],
                          ForLoop(commands[t], idx[t] + 1, "sc_acq")))
    /\ UNCHANGED <<variant, fields, _spectralData, _sample_data_scale, spec_lock,
                   lastGood, op, exc, commands, failed, succeeded, tmp, ret>>

(* ------- PhysicalSpectrometer.model / int_time_max / int_time_min ------ *)

\* self.spec_lock.acquire(); self.assign_spec()
AccessorAcquireSpec(t) ==
    /\ pc[t] = "ac_sacq"
    /\ CanAcquire(spec_lock)
    /\ spec_lock' = TRUE
    /\ Goto(t, "as_acq")
    /\ UNCHANGED <<variant, fields, _spectralData, _sample_data_scale, comm_lock,
                   lastGood, locals>>

\* self.spec_lock.release(); return self._specmodel (or the limit)
AccessorReleaseSpec(t) ==
    /\ pc[t] = "ac_srel"
    /\ spec_lock' = FALSE
    /\ Goto(t, "done")
    /\ UNCHANGED <<variant, fields, _spectralData, _sample_data_scale, comm_lock,
                   lastGood, locals>>

(* --------------------------- DemoSpectrometer -------------------------- *)

\* self._specmodel = "USB2000+"
DemoAssign(t) ==
    /\ pc[t] = "da_assign"
    /\ _specmodel' = DemoModel
    /\ Goto(t, "done")
    /\ UNCHANGED <<variant, _spec, _int_time_min, _int_time_max, _spectralData,
                   _sample_data_scale, comm_lock, spec_lock, lastGood, locals>>

\* return self._specmodel / self._int_time_max / self._int_time_min
DemoAccessor(t) ==
    /\ pc[t] = "da_ret"
    /\ Goto(t, "done")
    /\ UNCHANGED <<shared, locals>>

\* the whole pair replaced instead of its first element
DemoWavelengthsReset(data) == [wl |-> DemoSamples, in |-> 0, tag |-> <<>>]

\* the wavelength sequence get_spectrum stores
DemoWavelengths(data) == [data EXCEPT !.wl = DemoSamples]

\* self._spectralData[0] = numpy.linspace(400, 900, 5000)
DemoGetWavelengths(t) ==
    /\ pc[t] = "dg_wl"
    /\ _spectralData' = DemoWavelengths(_spectralData)
    /\ Goto(t, "dg_comp")
    /\ UNCHANGED <<variant, fields, _sample_data_scale, comm_lock, spec_lock,
                   lastGood, locals>>

\* [self.sample_spectrum(wl) for wl in self._spectralData[0]]: one sample per
\* wavelength of the list as it is now, each scaled by self._sample_data_scale
DemoGetSamples(t) ==
    /\ pc[t] = "dg_comp"
    /\ tmp' = [tmp EXCEPT ![t] = <<_spectralData.wl, _sample_data_scale>>]
    /\ Goto(t, "dg_store")
    /\ UNCHANGED <<shared, op, exc, commands, idx, failed, succeeded, ret>>

\* self._spectralData[1] = the list
DemoGetStore(t) ==
    /\ pc[t] = "dg_store"
    /\ _spectralData' = [_spectralData EXCEPT
                            !.in = tmp[t][1],
                            !.tag = <<tmp[t][2]>>]
    /\ Goto(t, "dg_ret")
    /\ UNCHANGED <<variant, fields, _sample_data_scale, comm_lock, spec_lock,
                   lastGood, locals>>

\* return self._spectralData: the shared list itself, not a copy
DemoGetReturn(t) ==
    /\ pc[t] = "dg_ret"
    /\ Goto(t, "dg_caller")
    /\ UNCHANGED <<shared, locals>>

\* update_plot: wavelengths = spectrum[0]; intensities = spectrum[1]
DemoCallerRead(t) ==
    /\ pc[t] = "dg_caller"
    /\ ret' = [ret EXCEPT ![t] = _spectralData]
    /\ Goto(t, "done")
    /\ UNCHANGED <<shared, op, exc, commands, idx, failed, succeeded, tmp>>

\* integration_time_demo(x): self._sample_data_scale = x
integration_time_demo(x) == _sample_data_scale' = x

\* eval(self.controlFunctions[ctrl_id])(commands[ctrl_id])
DemoSendCall(t) ==
    /\ pc[t] = "ds_call"
    /\ LET e == commands[t][idx[t]] IN
        \/ /\ e.id \notin ControlFunctions
           /\ RecordFailure(t, e, KeyErr)
           /\ UNCHANGED _sample_data_scale
        \/ /\ e.id \in ControlFunctions
           /\ integration_time_demo(e.val)
           /\ RecordSuccess(t, e)
    /\ idx' = [idx EXCEPT ![t] = @ + 1]
    /\ Goto(t, AfterEntry(commands[t][idx[t]].id \in DOMAIN failed'[t],
                          ForLoop(commands[t], idx[t] + 1, "ds_call")))
    /\ UNCHANGED <<variant, fields, _spectralData, comm_lock, spec_lock, lastGood,
                   op, exc, commands, tmp, ret>>

(* ------------------------------ behaviours ----------------------------- *)

\* every step of PhysicalSpectrometer but the call of self._spec.spectrum
PhysicalOther(t) ==
    \/ AssignAcquire(t) \/ AssignBody(t) \/ AssignRelease(t)
    \/ GetCheck(t) \/ GetAcquireSpec(t) \/ GetReleaseSpec(t) \/ GetAcquireComm(t)
    \/ GetReleaseComm(t) \/ GetReturn(t)
    \/ SendAcquire(t) \/ SendCall(t) \/ SendRelease(t)
    \/ AccessorAcquireSpec(t) \/ AccessorReleaseSpec(t)
    \/ Finish(t)

PhysicalStep(t) == PhysicalOther(t) \/ GetRead(t)

DemoStep(t) ==
    \/ DemoAssign(t) \/ DemoAccessor(t)
    \/ DemoGetWavelengths(t) \/ DemoGetSamples(t) \/ DemoGetStore(t)
    \/ DemoGetReturn(t) \/ DemoCallerRead(t)
    \/ DemoSendCall(t)

\* the running app: every request thread runs any callback at any time
Start(t) ==
    \/ StartGetSpectrum(t)
    \/ StartSendOf(t, PanelBatches)
    \/ StartAccessor(t)
    \/ StartAssign(t)

Next == \E t \in Threads : Start(t) \/ PhysicalStep(t) \/ DemoStep(t)

Spec == Init /\ [][Next]_vars

\* the device driven one call at a time, with any batch of commands
AllIdle == \A u \in Threads : pc[u] = "idle"

SeqStart(t) ==
    /\ AllIdle
    /\ \/ StartGetSpectrum(t)
       \/ StartSendOf(t, Batches)
       \/ StartAccessor(t)
       \/ StartAssign(t)

SeqNext == \E t \in Threads : SeqStart(t) \/ PhysicalStep(t) \/ DemoStep(t)

SeqSpec == Init /\ [][SeqNext]_vars

\* the Physical device alone, in front of a scene that does not change (every
\* read that succeeds delivers the same spectrum) and with the panel untouched
\* (the control's value is the int_time_min() it was built with); every running
\* thread is scheduled again and again, also when it has to wait for a lock
StillFrames == {1}
UntouchedBatches == {<<Entry(KnownId, DriverMinLimit)>>}

StillStart(t) ==
    \/ StartGetSpectrum(t)
    \/ StartSendOf(t, UntouchedBatches)
    \/ StartAccessor(t)

StillStep(t) == PhysicalOther(t) \/ GetReadOf(t, StillFrames)

StillNext == \E t \in Threads : StillStart(t) \/ StillStep(t)

FairSpec ==
    /\ InitPhysical
    /\ [][StillNext]_vars
    /\ \A t \in Threads : SF_vars(StillStep(t))

(* -------------------------------- claims -------------------------------- *)

Physical == variant = "Physical"
Demo == variant = "Demo"

\* between comm_lock.acquire() and comm_lock.release(), by method
InAssignSection(t) == pc[t] \in {"as_body", "as_rel"}
InReadSection(t) == pc[t] \in {"gs_read", "gs_crel"}
InSendSection(t) == pc[t] \in {"sc_call", "sc_rel"}
InCommSection(t) == InAssignSection(t) \/ InReadSection(t) \/ InSendSection(t)
\* about to call into the driver
AtDriverCall(t) == pc[t] \in {"as_body", "gs_read", "sc_call"}

Returned(t, o) == pc[t] = "done" /\ op[t] = o
InBounds(v) == _int_time_min <= v /\ v <= _int_time_max
Single(i, v) == <<Entry(i, v)>>
Only(i, v) == [k \in {i} |-> v]

\* C1: on the Physical device every call into the driver is made with comm_lock
\* held, and no two threads are inside a comm_lock section at once.
C1_DriverCallsExclusive ==
    Physical =>
        /\ \A t \in Threads : AtDriverCall(t) => InCommSection(t) /\ comm_lock
        /\ \A t \in Threads : InCommSection(t) => comm_lock
        /\ \A t, u \in Threads : t # u => ~(InCommSection(t) /\ InCommSection(u))

\* one thread reads a spectrum while another waits at comm_lock to rebind
C1_Witness ==
    \E t, u \in Threads :
        /\ t # u
        /\ Physical
        /\ pc[t] = "gs_read"
        /\ pc[u] = "as_acq"

\* C2, as stated: a rebind that has reached assign_spec while another thread
\* is inside a spectrum read is not held up by it, and a read that has reached
\* its comm_lock.acquire() while another thread is inside assign_spec is not
\* held up either.
C2_ReadAndRebindIndependent ==
    \A t, u \in Threads :
        t # u =>
            /\ InReadSection(u) /\ pc[t] = "as_acq" => CanAcquire(comm_lock)
            /\ InAssignSection(u) /\ pc[t] = "gs_cacq" => CanAcquire(comm_lock)

\* C2, amended: a rebind may take spec_lock while a read holds comm_lock, but no
\* assign_spec enters its driver calls while another thread is inside a spectrum
\* read, and no read enters the driver while another thread is inside
\* assign_spec.
C2_RebindWaitsForRead ==
    [][\A t, u \in Threads :
        t # u =>
            /\ InReadSection(u) => ~(pc[t] = "as_acq" /\ pc'[t] = "as_body")
            /\ InAssignSection(u) => ~(pc[t] = "gs_cacq" /\ pc'[t] = "gs_read")]_vars

\* a model() call holds spec_lock and waits in assign_spec for the comm_lock
\* that a spectrum read holds
C2_Witness ==
    \E t, u \in Threads :
        /\ t # u
        /\ pc[u] = "gs_read"
        /\ pc[t] = "as_acq" /\ op[t] = "accessor"
        /\ spec_lock /\ comm_lock

\* C3: when send_control_values returns, every submitted id is in exactly one
\* of failed and succeeded, and no other id is in either.
C3_EveryIdInExactlyOne ==
    \A t \in Threads :
        Returned(t, "send_control_values") =>
            /\ DOMAIN failed[t] \cup DOMAIN succeeded[t] = BatchIds(commands[t])
            /\ DOMAIN failed[t] \cap DOMAIN succeeded[t] = {}

\* a batch whose first entry failed and whose second entry succeeded
C3_Witness ==
    \E t \in Threads :
        /\ Returned(t, "send_control_values")
        /\ Len(commands[t]) = 2
        /\ commands[t][1].id \in DOMAIN failed[t]
        /\ commands[t][2].id \in DOMAIN succeeded[t]

\* C4: an integration time outside [int_time_min, int_time_max] never reaches
\* the setter (the simulated scale stays within the limits) and its id is
\* reported under failed.
C4_OutOfBoundRejected ==
    /\ Demo => InBounds(_sample_data_scale)
    /\ \A t \in Threads :
        Returned(t, "send_control_values") =>
            \A k \in 1..Len(commands[t]) :
                commands[t][k].id = KnownId /\ ~InBounds(commands[t][k].val) =>
                    /\ KnownId \in DOMAIN failed[t]
                    /\ KnownId \notin DOMAIN succeeded[t]

\* C5: get_spectrum returns two sequences of the same length, at least 1.
C5_SpectrumNonEmpty ==
    \A t \in Threads :
        Returned(t, "get_spectrum") => ret[t].wl = ret[t].in /\ ret[t].wl >= 1

\* C6: once the try block of assign_spec has raised, the handle is unbound and
\* the model name is empty.
C6_FailedAssignUnbinds ==
    \A t \in Threads :
        pc[t] = "as_rel" /\ exc[t] => ~_spec /\ _specmodel = ""

\* C7: on the Simulated device the spectrum the caller reads after get_spectrum
\* returned holds 5000 wavelengths and 5000 intensities, whatever ran meanwhile.
C7_DemoSpectrumLengths ==
    Demo =>
        \A t \in Threads :
            Returned(t, "get_spectrum") =>
                ret[t].wl = DemoSamples /\ ret[t].in = DemoSamples

\* the caller has read a spectrum computed after a submit changed the scale,
\* while another submit is in progress
C7_Witness ==
    \E t, u \in Threads :
        /\ Demo
        /\ Returned(t, "get_spectrum")
        /\ ret[t].tag # <<DefaultIntTimeMin>>
        /\ pc[u] = "ds_call"

\* C8: a read that raises leaves the stored spectrum as it was, and a
\* get_spectrum whose read raised returns the spectrum of the last read that
\* succeeded (the initial empty one if there was none).
C8_FailedReadReturnsLastGood ==
    [][\A t \in Threads :
        /\ pc[t] = "gs_read" /\ exc'[t] => _spectralData' = _spectralData
        /\ pc[t] = "gs_ret" /\ exc[t] /\ pc'[t] = "done" => ret'[t] = lastGood]_vars

\* a read has raised after an earlier read succeeded
C8_Witness ==
    \E t \in Threads :
        /\ pc[t] = "gs_ret"
        /\ exc[t]
        /\ lastGood # EmptySpectrum

\* C9, as stated: a batch of the integration-time id alone with a value within
\* the limits returns succeeded = {id: str(v)} and failed = {}.
C9_ValidValueSucceeds ==
    \A t \in Threads : \A v \in Values :
        Returned(t, "send_control_values") /\ commands[t] = Single(KnownId, v)
            /\ InBounds(v) =>
                /\ succeeded[t] = Only(KnownId, PyStr(v))
                /\ failed[t] = EmptyMap

\* C9, amended: that result on the Simulated device, and on the Physical device
\* when a device is bound and the driver takes the value; with no device bound,
\* or when the driver raises, the id is under failed and succeeded is empty.
C9_ValidValueOutcome ==
    \A t \in Threads : \A v \in Values :
        Returned(t, "send_control_values") /\ commands[t] = Single(KnownId, v)
            /\ InBounds(v) =>
                LET ok == /\ succeeded[t] = Only(KnownId, PyStr(v))
                          /\ failed[t] = EmptyMap
                    bad(msg) == /\ succeeded[t] = EmptyMap
                                /\ failed[t] = Only(KnownId, msg)
                IN  IF Demo THEN ok
                    ELSE IF ~_spec THEN bad(AttrErr)
                    ELSE ok \/ bad(DriverErr)

\* the bound Physical device has taken a value within its limits
C9_Witness ==
    \E t \in Threads : \E v \in Values :
        /\ Physical
        /\ Returned(t, "send_control_values")
        /\ commands[t] = Single(KnownId, v)
        /\ InBounds(v)
        /\ succeeded[t] = Only(KnownId, PyStr(v))

\* between spec_lock.acquire() and spec_lock.release()
InSpecSection(t) ==
    /\ op[t] \in {"get_spectrum", "accessor"}
    /\ pc[t] \in {"as_acq", "as_body", "as_rel", "gs_srel", "ac_srel"}
Quiet == \A t \in Threads : pc[t] \in {"idle", "done"}

\* C10: a locked lock has a thread inside its section to release it (the one
\* inside a comm_lock section never waits; the one inside the spec_lock section
\* waits for comm_lock at most), both locks are free whenever no operation is in
\* progress, and under fair scheduling every operation that has started returns.
C10_NoDeadlock ==
    /\ [](comm_lock => \E t \in Threads : InCommSection(t))
    /\ [](spec_lock => \E t \in Threads : InSpecSection(t))
    /\ [](Quiet => ~comm_lock /\ ~spec_lock)
    /\ \A t \in Threads : (pc[t] # "idle") ~> (pc[t] = "done")

\* one thread is inside assign_spec holding both locks, its try block having
\* raised, while another waits for spec_lock
C10_Witness ==
    \E t, u \in Threads :
        /\ t # u
        /\ pc[t] = "as_rel" /\ exc[t] /\ spec_lock /\ comm_lock
        /\ pc[u] \in {"gs_sacq", "ac_sacq"}

====
